---- MODULE Spec2Model ----
(***************************************************************************)
(* Model of src/main.py: the log_requests HTTP middleware, the 404         *)
(* handler, the custom_openapi schema generator with its cache (called in  *)
(* turn, and from racing threads), and the lifespan context manager.       *)
(*                                                                         *)
(* Python dicts are functions with a finite string domain: a key is in the *)
(* dict iff it is in the DOMAIN. A coroutine runs atomically between two   *)
(* awaits, so log_requests is two actions: the part before                 *)
(* `await call_next(request)` and the part after it.                       *)
(***************************************************************************)
EXTENDS Integers, Sequences, FiniteSets, TLC

\* ---------------------------------------------------------------- bounds
MaxReqs == 2          \* requests handled in one run
MaxTime == 1          \* readings of the wall clock (datetime.utcnow)
MaxCalls == 3         \* calls of custom_openapi in one run
MaxCallers == 2       \* threads that call custom_openapi at the same time

Reqs == 1..MaxReqs
Times == 1..MaxTime
Callers == 1..MaxCallers

VARIABLES
    routes,          \* app.routes: the registered routes
    openapi_schema,  \* app.openapi_schema: the cached schema, None at first
    base_schema,     \* what get_openapi returned when it was last called
    calls,           \* number of custom_openapi calls made so far
    computed,        \* number of get_openapi calls made so far
    returned,        \* what the last call of custom_openapi returned
    pc,              \* per request: position of its log_requests coroutine
    request,         \* per request: [method, path]
    request_id,      \* per request: the local variable request_id
    state,           \* per request: request.state.request_id
    downstream,      \* per request: how `await call_next(request)` finished
    outcome,         \* per request: how log_requests finished
    steps,           \* per request: which of step 4 / step 5 ran
    logged,          \* per request: the lines its logger calls wrote
    sinkFailed,      \* per request: the logger calls that raised
    log,             \* the lines the logger sink has accepted, in order
    issued,          \* number of uuid4 values drawn so far
    cpc,             \* per caller thread: its position in custom_openapi
    croutes,         \* per caller thread: the app.routes it gave get_openapi
    clocal,          \* per caller thread: its local variable openapi_schema
    cret,            \* per caller thread: what custom_openapi returned to it
    phase,           \* position of the lifespan context manager
    init_db_calls,   \* number of init_db() calls made so far
    init_db_result   \* how init_db() finished: "none", "ok" or "raised"

schemaVars == <<openapi_schema, base_schema, calls, computed, returned>>
mwVars == <<pc, request, request_id, state, downstream, outcome, steps, logged,
            sinkFailed, log, issued>>
raceVars == <<cpc, croutes, clocal, cret>>
lifeVars == <<phase, init_db_calls, init_db_result>>
vars == <<routes, openapi_schema, base_schema, calls, computed, returned,
          pc, request, request_id, state, downstream, outcome, steps, logged,
          sinkFailed, log, issued, cpc, croutes, clocal, cret,
          phase, init_db_calls, init_db_result>>

\* ------------------------------------------------------------ Python dicts
EmptyDict == [k \in {} |-> {}]

\* Python's None, as far as the code tests it: `if app.openapi_schema`
\* (line 110) is a truthiness test, under which None and {} agree.
None == EmptyDict

Truthy(d) == DOMAIN d # {}

\* d[k] = v
SetItem(d, k, v) == (k :> v) @@ d

\* ------------------------------------------------------ the route table
\* The routers of app.api are not part of the source: a route is known by
\* its path, the response model it declares (if any) and the security
\* scheme its dependencies declare (if any).
NoModel == ""
NoScheme == ""

RootRoute == [path |-> "/", model |-> NoModel, scheme |-> NoScheme]
HealthRoute == [path |-> "/api/v1/health", model |-> "HealthStatus", scheme |-> NoScheme]
EventsRoute == [path |-> "/api/v1/events", model |-> NoModel, scheme |-> "HTTPBearer"]
KeysRoute == [path |-> "/api/v1/keys", model |-> "ApiKey", scheme |-> "bearerAuth"]

Routers == {HealthRoute, EventsRoute, KeysRoute}
RouteCatalog == Routers \cup {RootRoute}

\* The security scheme objects the routers' dependencies declare.
SchemeDef(name) ==
    IF name = "HTTPBearer"
    THEN ("type" :> "http") @@ ("scheme" :> "bearer")
    ELSE ("type" :> "apiKey") @@ ("in" :> "header") @@ ("name" :> "X-API-Key")

\* get_openapi(title=..., version=..., description=..., routes=app.routes):
\* the framework's schema of the routes. It has a "components" key only
\* when some route declares a model or a security scheme.
GetOpenapi(rs) ==
    LET models == {r.model : r \in rs} \ {NoModel}
        schemes == {r.scheme : r \in rs} \ {NoScheme}
        schemasPart == IF models = {} THEN EmptyDict
                       ELSE "schemas" :> models
        securityPart == IF schemes = {} THEN EmptyDict
                        ELSE "securitySchemes" :> [n \in schemes |-> SchemeDef(n)]
        components == schemasPart @@ securityPart
    IN  ("openapi" :> "3.1.0")
        @@ ("info" :> "API_TITLE API_VERSION")
        @@ ("paths" :> {r.path : r \in rs})
        @@ (IF DOMAIN components = {} THEN EmptyDict
            ELSE "components" :> components)

\* The scheme custom_openapi installs (lines 128-133).
BearerAuth ==
    ("type" :> "http") @@ ("scheme" :> "bearer") @@ ("bearerFormat" :> "JWT")
    @@ ("description" :> "API Key as Bearer token")

\* Mutant of EnsureComponents: the container is assigned without the test.
EnsureComponents_Overwrite(s) == SetItem(s, "components", EmptyDict)

\* Lines 121-122.
EnsureComponents(s) ==
    IF "components" \notin DOMAIN s THEN SetItem(s, "components", EmptyDict) ELSE s

\* Lines 125-126.
EnsureSecuritySchemes(s) ==
    IF "securitySchemes" \notin DOMAIN s["components"]
    THEN [s EXCEPT !["components"] = SetItem(@, "securitySchemes", EmptyDict)]
    ELSE s

\* Mutant of SetBearerAuth: setdefault in place of the assignment.
SetBearerAuth_IfAbsent(s) ==
    IF "bearerAuth" \in DOMAIN s["components"]["securitySchemes"] THEN s
    ELSE [s EXCEPT !["components"]["securitySchemes"] = SetItem(@, "bearerAuth", BearerAuth)]

\* Lines 128-133.
SetBearerAuth(s) ==
    [s EXCEPT !["components"]["securitySchemes"] = SetItem(@, "bearerAuth", BearerAuth)]

\* Lines 120-133: the augmentation of the base schema.
Augment(s) == SetBearerAuth(EnsureSecuritySchemes(EnsureComponents(s)))

\* Mutant of UseCache: the cache is never consulted.
UseCache_Never(cache) == FALSE

\* Line 110: the cached schema is used when it is truthy.
UseCache(cache) == Truthy(cache)

\* custom_openapi(), lines 108-136.
custom_openapi ==
    /\ calls < MaxCalls
    /\ calls' = calls + 1
    /\ IF UseCache(openapi_schema)
       THEN /\ returned' = openapi_schema
            /\ UNCHANGED <<openapi_schema, base_schema, computed>>
       ELSE /\ base_schema' = GetOpenapi(routes)
            /\ computed' = computed + 1
            /\ openapi_schema' = Augment(base_schema')
            /\ returned' = openapi_schema'
    /\ UNCHANGED routes
    /\ UNCHANGED mwVars
    /\ UNCHANGED <<raceVars, lifeVars>>

\* app.include_router(...), lines 99-104.
include_router(r) ==
    /\ r \notin routes
    /\ routes' = routes \cup {r}
    /\ UNCHANGED schemaVars
    /\ UNCHANGED mwVars
    /\ UNCHANGED <<raceVars, lifeVars>>

\* @app.get("/"), line 143.
register_root ==
    /\ RootRoute \notin routes
    /\ routes' = routes \cup {RootRoute}
    /\ UNCHANGED schemaVars
    /\ UNCHANGED mwVars
    /\ UNCHANGED <<raceVars, lifeVars>>

\* custom_openapi called from several threads: the steps of one call, each
\* of which reads or writes app.openapi_schema or app.routes once.
\* Line 110: the test of the cache.
co_test(c) ==
    /\ cpc[c] = "idle"
    /\ cpc' = [cpc EXCEPT ![c] = IF UseCache(openapi_schema) THEN "hit" ELSE "miss"]
    /\ UNCHANGED <<croutes, clocal, cret>>
    /\ UNCHANGED <<routes, schemaVars, mwVars, lifeVars>>

\* Line 111: return app.openapi_schema.
co_return_cached(c) ==
    /\ cpc[c] = "hit"
    /\ cret' = [cret EXCEPT ![c] = openapi_schema]
    /\ cpc' = [cpc EXCEPT ![c] = "done"]
    /\ UNCHANGED <<croutes, clocal>>
    /\ UNCHANGED <<routes, schemaVars, mwVars, lifeVars>>

\* Lines 113-133: get_openapi on the routes of the moment, and the
\* augmentation of its result, which is local to the call.
co_build(c) ==
    /\ cpc[c] = "miss"
    /\ croutes' = [croutes EXCEPT ![c] = routes]
    /\ clocal' = [clocal EXCEPT ![c] = Augment(GetOpenapi(routes))]
    /\ cpc' = [cpc EXCEPT ![c] = "built"]
    /\ UNCHANGED cret
    /\ UNCHANGED <<routes, schemaVars, mwVars, lifeVars>>

\* Line 135: app.openapi_schema = openapi_schema.
co_store(c) ==
    /\ cpc[c] = "built"
    /\ openapi_schema' = clocal[c]
    /\ cpc' = [cpc EXCEPT ![c] = "stored"]
    /\ UNCHANGED <<croutes, clocal, cret>>
    /\ UNCHANGED <<routes, base_schema, calls, computed, returned, mwVars, lifeVars>>

\* Line 136: return app.openapi_schema.
co_return(c) ==
    /\ cpc[c] = "stored"
    /\ cret' = [cret EXCEPT ![c] = openapi_schema]
    /\ cpc' = [cpc EXCEPT ![c] = "done"]
    /\ UNCHANGED <<croutes, clocal>>
    /\ UNCHANGED <<routes, schemaVars, mwVars, lifeVars>>

\* ------------------------------------------------------------ log_requests
Methods == {"GET"}
ReqPaths == {"/", "/no-such-route"}

\* How a call finished: with a response, with an exception that is an
\* instance of Exception, or with one that is not (asyncio.CancelledError,
\* SystemExit, KeyboardInterrupt derive from BaseException only).
NoOutcome ==
    [kind |-> "none", status |-> 0, headers |-> EmptyDict, body |-> EmptyDict, msg |-> ""]

Response(status, headers, body) ==
    [kind |-> "response", status |-> status, headers |-> headers, body |-> body, msg |-> ""]

Raised(kind, msg) ==
    [kind |-> kind, status |-> 0, headers |-> EmptyDict, body |-> EmptyDict, msg |-> msg]

\* JSONResponse(status_code=..., content=...): no header but the content type.
JSONResponse(status, content) ==
    Response(status, "content-type" :> "application/json", content)

\* not_found_handler, lines 157-167.
not_found_handler(req, t) ==
    JSONResponse(404, ("detail" :> "Endpoint not found")
                      @@ ("path" :> req.path)
                      @@ ("timestamp" :> t))

\* What a matched route handler (not part of the source) can do: answer,
\* answer with a 4xx of its own, raise HTTPException(404) (which the 404
\* exception handler answers), or fail with an uncaught exception.
HandlerOutcomes(req, t) ==
    { JSONResponse(200, "payload" :> "ok"),
      JSONResponse(422, "detail" :> "validation error"),
      not_found_handler(req, t),
      Raised("exception", "db password rejected"),
      Raised("base_exception", "cancelled") }

\* await call_next(request), line 63: the router matches the path against
\* app.routes; a path no route matches raises HTTPException(404), which
\* the exception handler registered at line 157 turns into a response.
call_next(req, rs, t) ==
    IF req.path \in {r.path : r \in rs}
    THEN HandlerOutcomes(req, t)
    ELSE {not_found_handler(req, t)}

InfoLine(req, response, rid) ==
    [level |-> "INFO", method |-> req.method, path |-> req.path,
     status |-> response.status, msg |-> "", request_id |-> rid]

ErrorLine(req, e, rid) ==
    [level |-> "ERROR", method |-> req.method, path |-> req.path,
     status |-> 0, msg |-> e.msg, request_id |-> rid]

\* The exception a logger call raises when the sink is unavailable.
LogFailure == Raised("exception", "log sink unavailable")

\* Line 66: response.headers["X-Request-ID"] = request_id.
SetRequestIdHeader(response, rid) ==
    [response EXCEPT !.headers = SetItem(@, "X-Request-ID", rid)]

\* Lines 88-95: the response of the except block.
ErrorResponse(rid, t) ==
    JSONResponse(500, ("detail" :> "Internal server error")
                      @@ ("request_id" :> rid)
                      @@ ("timestamp" :> t))

\* `except Exception as e`, line 79: which raised outcomes the clause takes.
Caught(e) == e.kind = "exception"

\* Mutant of TryBlock: an exception of logger.info is swallowed.
TryBlock_SwallowsInfo(req, rid, down, infoRaises) ==
    IF down.kind # "response"
    THEN [raised |-> down, ret |-> NoOutcome, lines |-> <<>>, normal |-> FALSE,
          failed |-> {}]
    ELSE LET response == SetRequestIdHeader(down, rid)
         IN  [raised |-> NoOutcome, ret |-> response,
              lines |-> IF infoRaises THEN <<>> ELSE <<InfoLine(req, response, rid)>>,
              normal |-> TRUE,
              failed |-> IF infoRaises THEN {"info"} ELSE {}]

\* Lines 63-77, the try block from the point call_next has finished:
\* [raised: what the block raised (NoOutcome when it returned),
\*  ret: what it returned, lines: what it logged, normal: step 4 began,
\*  failed: the logger calls that raised].
TryBlock(req, rid, down, infoRaises) ==
    IF down.kind # "response"
    THEN [raised |-> down, ret |-> NoOutcome, lines |-> <<>>, normal |-> FALSE,
          failed |-> {}]
    ELSE LET response == SetRequestIdHeader(down, rid)
         IN  IF infoRaises
             THEN [raised |-> LogFailure, ret |-> NoOutcome, lines |-> <<>>,
                   normal |-> TRUE, failed |-> {"info"}]
             ELSE [raised |-> NoOutcome, ret |-> response,
                   lines |-> <<InfoLine(req, response, rid)>>, normal |-> TRUE,
                   failed |-> {}]

\* Mutant of ExceptBlock: the body's detail is str(e).
ExceptBlock_LeaksMessage(req, rid, e, errorRaises, t) ==
    IF errorRaises
    THEN [raised |-> LogFailure, ret |-> NoOutcome, lines |-> <<>>,
          failed |-> {"error"}]
    ELSE [raised |-> NoOutcome,
          ret |-> JSONResponse(500, ("detail" :> e.msg)
                                    @@ ("request_id" :> rid)
                                    @@ ("timestamp" :> t)),
          lines |-> <<ErrorLine(req, e, rid)>>, failed |-> {}]

\* Lines 79-95, the except block entered with exception e.
ExceptBlock(req, rid, e, errorRaises, t) ==
    IF errorRaises
    THEN [raised |-> LogFailure, ret |-> NoOutcome, lines |-> <<>>,
          failed |-> {"error"}]
    ELSE [raised |-> NoOutcome, ret |-> ErrorResponse(rid, t),
          lines |-> <<ErrorLine(req, e, rid)>>, failed |-> {}]

\* Lines 62-95: try and except together. [result: the response returned
\* or the exception that leaves the middleware, lines, steps, failed].
TryExcept(req, rid, down, infoRaises, errorRaises, t) ==
    LET try == TryBlock(req, rid, down, infoRaises)
    IN  IF try.raised.kind = "none"
        THEN [result |-> try.ret, lines |-> try.lines, steps |-> {"normal"},
              failed |-> try.failed]
        ELSE IF Caught(try.raised)
        THEN LET exc == ExceptBlock(req, rid, try.raised, errorRaises, t)
             IN  [result |-> IF exc.raised.kind = "none" THEN exc.ret ELSE exc.raised,
                  lines |-> try.lines \o exc.lines,
                  steps |-> (IF try.normal THEN {"normal"} ELSE {}) \cup {"failure"},
                  failed |-> try.failed \cup exc.failed]
        ELSE [result |-> try.raised, lines |-> try.lines,
              steps |-> IF try.normal THEN {"normal"} ELSE {},
              failed |-> try.failed]

\* Mutant of uuid4: the generator gives its previous value again.
uuid4_Repeats == IF issued = 0 THEN issued + 1 ELSE issued

\* str(uuid.uuid4()), line 56: a value no earlier call returned.
uuid4 == issued + 1

\* Mutant of log_requests_enter: line 60 is missing, the ID is not stored.
log_requests_enter_NoState(r) ==
    /\ pc[r] = "idle"
    /\ r = issued + 1
    /\ \E m \in Methods, p \in ReqPaths :
          request' = [request EXCEPT ![r] = [method |-> m, path |-> p]]
    /\ issued' = issued + 1
    /\ request_id' = [request_id EXCEPT ![r] = uuid4]
    /\ pc' = [pc EXCEPT ![r] = "awaiting"]
    /\ UNCHANGED <<state, downstream, outcome, steps, logged, sinkFailed, log>>
    /\ UNCHANGED <<routes, schemaVars>>
    /\ UNCHANGED <<raceVars, lifeVars>>

\* log_requests up to `await call_next(request)`: lines 56-63.
log_requests_enter(r) ==
    /\ pc[r] = "idle"
    /\ r = issued + 1
    /\ \E m \in Methods, p \in ReqPaths :
          request' = [request EXCEPT ![r] = [method |-> m, path |-> p]]
    /\ issued' = issued + 1
    /\ request_id' = [request_id EXCEPT ![r] = uuid4]
    /\ state' = [state EXCEPT ![r] = uuid4]
    /\ pc' = [pc EXCEPT ![r] = "awaiting"]
    /\ UNCHANGED <<downstream, outcome, steps, logged, sinkFailed, log>>
    /\ UNCHANGED <<routes, schemaVars>>
    /\ UNCHANGED <<raceVars, lifeVars>>

\* A downstream handler assigns request.state.request_id while it runs.
handler_sets_state(r) ==
    /\ pc[r] = "awaiting"
    /\ state[r] = request_id[r]
    /\ state' = [state EXCEPT ![r] = 0]
    /\ UNCHANGED <<pc, request, request_id, downstream, outcome, steps, logged,
                   sinkFailed, log, issued>>
    /\ UNCHANGED <<routes, schemaVars>>
    /\ UNCHANGED <<raceVars, lifeVars>>

\* Mutant of Resume: the ID is read back from request.state.request_id.
Resume_ReadsState(r, sink) ==
    /\ pc[r] = "awaiting"
    /\ \E t1 \in Times, t2 \in Times, infoRaises \in sink, errorRaises \in sink :
          /\ t1 <= t2
          /\ \E down \in call_next(request[r], routes, t1) :
                LET res == TryExcept(request[r], state[r], down,
                                     infoRaises, errorRaises, t2)
                IN  /\ downstream' = [downstream EXCEPT ![r] = down]
                    /\ outcome' = [outcome EXCEPT ![r] = res.result]
                    /\ steps' = [steps EXCEPT ![r] = res.steps]
                    /\ logged' = [logged EXCEPT ![r] = res.lines]
                    /\ sinkFailed' = [sinkFailed EXCEPT ![r] = res.failed]
                    /\ log' = log \o res.lines
    /\ pc' = [pc EXCEPT ![r] = "done"]
    /\ UNCHANGED <<request, request_id, state, issued>>
    /\ UNCHANGED <<routes, schemaVars>>
    /\ UNCHANGED <<raceVars, lifeVars>>

\* log_requests from the point call_next finishes: lines 63-95. Each of
\* the two logger calls raises or not, as the sink allows.
Resume(r, sink) ==
    /\ pc[r] = "awaiting"
    /\ \E t1 \in Times, t2 \in Times, infoRaises \in sink, errorRaises \in sink :
          /\ t1 <= t2
          /\ \E down \in call_next(request[r], routes, t1) :
                LET res == TryExcept(request[r], request_id[r], down,
                                     infoRaises, errorRaises, t2)
                IN  /\ downstream' = [downstream EXCEPT ![r] = down]
                    /\ outcome' = [outcome EXCEPT ![r] = res.result]
                    /\ steps' = [steps EXCEPT ![r] = res.steps]
                    /\ logged' = [logged EXCEPT ![r] = res.lines]
                    /\ sinkFailed' = [sinkFailed EXCEPT ![r] = res.failed]
                    /\ log' = log \o res.lines
    /\ pc' = [pc EXCEPT ![r] = "done"]
    /\ UNCHANGED <<request, request_id, state, issued>>
    /\ UNCHANGED <<routes, schemaVars>>
    /\ UNCHANGED <<raceVars, lifeVars>>

\* Lines 63-95 with a logger whose calls return.
log_requests_resume_logged(r) == Resume(r, {FALSE})

\* Lines 63-95 with a logger whose calls may raise (sink unavailable).
log_requests_resume(r) == Resume(r, BOOLEAN)

\* ---------------------------------------------------------------- lifespan
\* A line of the application's own, in the shape of the request lines.
AppLine(msg) ==
    [level |-> "INFO", method |-> "", path |-> "", status |-> 0, msg |-> msg,
     request_id |-> 0]

\* Mutant of LifespanStartup: the context manager yields before init_db().
LifespanStartup_YieldsFirst(startRaises, initRaises, doneRaises) ==
    IF startRaises
    THEN [phase |-> "failed", lines |-> <<>>, calls |-> 0, result |-> "none"]
    ELSE [phase |-> "serving", lines |-> <<AppLine("Starting application...")>>,
          calls |-> 0, result |-> "none"]

\* Lines 24-27, which no await interrupts: the first log call, init_db()
\* and the second log call, each of which returns or raises, then the
\* yield. [phase reached, lines logged, init_db calls made, init_db result].
LifespanStartup(startRaises, initRaises, doneRaises) ==
    IF startRaises
    THEN [phase |-> "failed", lines |-> <<>>, calls |-> 0, result |-> "none"]
    ELSE IF initRaises
    THEN [phase |-> "failed", lines |-> <<AppLine("Starting application...")>>,
          calls |-> 1, result |-> "raised"]
    ELSE IF doneRaises
    THEN [phase |-> "failed", lines |-> <<AppLine("Starting application...")>>,
          calls |-> 1, result |-> "ok"]
    ELSE [phase |-> "serving",
          lines |-> <<AppLine("Starting application..."), AppLine("Database initialized")>>,
          calls |-> 1, result |-> "ok"]

\* The lifespan context manager is entered: lines 20-27.
lifespan_startup ==
    /\ phase = "created"
    /\ \E startRaises \in BOOLEAN, initRaises \in BOOLEAN, doneRaises \in BOOLEAN :
          LET up == LifespanStartup(startRaises, initRaises, doneRaises)
          IN  /\ phase' = up.phase
              /\ log' = log \o up.lines
              /\ init_db_calls' = init_db_calls + up.calls
              /\ init_db_result' = up.result
    /\ UNCHANGED <<pc, request, request_id, state, downstream, outcome, steps,
                   logged, sinkFailed, issued>>
    /\ UNCHANGED <<routes, schemaVars, raceVars>>

\* The server hands a request to the application, which it does between
\* the yield of the lifespan (line 27) and its resumption.
serve_request(r) ==
    /\ phase = "serving"
    /\ log_requests_enter(r)

\* The lifespan context manager is resumed after the yield, once the
\* server has drained the requests: lines 28-29.
lifespan_shutdown ==
    /\ phase = "serving"
    /\ \A r \in Reqs : pc[r] # "awaiting"
    /\ \E stopRaises \in BOOLEAN :
          IF stopRaises
          THEN /\ phase' = "shutdown_failed"
               /\ UNCHANGED log
          ELSE /\ phase' = "finished"
               /\ log' = Append(log, AppLine("Shutting down application..."))
    /\ UNCHANGED <<init_db_calls, init_db_result>>
    /\ UNCHANGED <<pc, request, request_id, state, downstream, outcome, steps,
                   logged, sinkFailed, issued>>
    /\ UNCHANGED <<routes, schemaVars, raceVars>>

\* -------------------------------------------------------- specification
Init ==
    /\ routes = {}
    /\ openapi_schema = None
    /\ base_schema = None
    /\ calls = 0
    /\ computed = 0
    /\ returned = None
    /\ pc = [r \in Reqs |-> "idle"]
    /\ request = [r \in Reqs |-> [method |-> "", path |-> ""]]
    /\ request_id = [r \in Reqs |-> 0]
    /\ state = [r \in Reqs |-> 0]
    /\ downstream = [r \in Reqs |-> NoOutcome]
    /\ outcome = [r \in Reqs |-> NoOutcome]
    /\ steps = [r \in Reqs |-> {}]
    /\ logged = [r \in Reqs |-> <<>>]
    /\ sinkFailed = [r \in Reqs |-> {}]
    /\ log = <<>>
    /\ issued = 0
    /\ cpc = [c \in Callers |-> "idle"]
    /\ croutes = [c \in Callers |-> {}]
    /\ clocal = [c \in Callers |-> None]
    /\ cret = [c \in Callers |-> None]
    /\ phase = "created"
    /\ init_db_calls = 0
    /\ init_db_result = "none"

\* The schema generator and the route table.
NextSchema ==
    \/ custom_openapi
    \/ \E r \in Routers : include_router(r)
    \/ register_root

\* The middleware, with the route the source itself registers.
NextMw ==
    \/ register_root
    \/ \E r \in Reqs : log_requests_enter(r)
    \/ \E r \in Reqs : handler_sets_state(r)
    \/ \E r \in Reqs : log_requests_resume(r)

\* The middleware while the log sink is available.
NextMwSinkUp ==
    \/ register_root
    \/ \E r \in Reqs : log_requests_enter(r)
    \/ \E r \in Reqs : handler_sets_state(r)
    \/ \E r \in Reqs : log_requests_resume_logged(r)

\* Threads racing through custom_openapi, and the route table.
NextRace ==
    \/ \E c \in Callers : co_test(c)
    \/ \E c \in Callers : co_return_cached(c)
    \/ \E c \in Callers : co_build(c)
    \/ \E c \in Callers : co_store(c)
    \/ \E c \in Callers : co_return(c)
    \/ \E r \in Routers : include_router(r)
    \/ register_root

\* The application from startup to shutdown, serving requests in between.
NextLife ==
    \/ lifespan_startup
    \/ \E r \in Reqs : serve_request(r)
    \/ \E r \in Reqs : log_requests_resume(r)
    \/ lifespan_shutdown

\* The middleware over handlers that only read request.state.
NextMwReadOnly ==
    \/ register_root
    \/ \E r \in Reqs : log_requests_enter(r)
    \/ \E r \in Reqs : log_requests_resume(r)

Next == NextSchema \/ NextMw \/ NextRace \/ NextLife

SpecSchema == Init /\ [][NextSchema]_vars
SpecMw == Init /\ [][NextMw]_vars
SpecMwSinkUp == Init /\ [][NextMwSinkUp]_vars
SpecMwReadOnly == Init /\ [][NextMwReadOnly]_vars
SpecRace == Init /\ [][NextRace]_vars
SpecLife == Init /\ [][NextLife]_vars
Spec == Init /\ [][Next]_vars

\* ------------------------------------------------------------- the claims
Done(r) == pc[r] = "done"

HasRequestIdHeader(resp, rid) ==
    /\ "X-Request-ID" \in DOMAIN resp.headers
    /\ resp.headers["X-Request-ID"] = rid

\* C1: every response log_requests returns carries the header X-Request-ID
\* set to the request's correlation ID, on the normal path and on the
\* synthesized 500 response alike.
C1_EveryResponseCarriesRequestId ==
    \A r \in Reqs :
        (Done(r) /\ outcome[r].kind = "response")
            => HasRequestIdHeader(outcome[r], request_id[r])

\* C2: a request that has left log_requests has written exactly one log
\* line, and exactly one of step 4 (normal return) and step 5 (unhandled
\* failure) ran for it.
C2_ExactlyOneLineAndOnePath ==
    \A r \in Reqs :
        Done(r) => /\ Len(logged[r]) = 1
                   /\ steps[r] \in {{"normal"}, {"failure"}}

\* The request's logger.error call wrote its line.
ErrorLogged(r) == \E i \in DOMAIN logged[r] : logged[r][i].level = "ERROR"

WithWorkingSink(r) ==
    {TryExcept(request[r], request_id[r], downstream[r], FALSE, FALSE, t).result :
        t \in Times}

\* C4: a logger call that raises is swallowed: the request still ends with
\* the response it ends with when the sink works, and the logging failure
\* does not leave the middleware.
C4_LoggingFailureSwallowed ==
    \A r \in Reqs :
        (Done(r) /\ sinkFailed[r] # {})
            => /\ outcome[r] # LogFailure
               /\ outcome[r] \in WithWorkingSink(r)

\* C5: no failure of the downstream chain leaves log_requests: each one
\* ends as the 500 response.
C5_NoFailureEscapes ==
    \A r \in Reqs :
        (Done(r) /\ downstream[r].kind \in {"exception", "base_exception"})
            => /\ outcome[r].kind = "response"
               /\ outcome[r].status = 500

\* C6: once the schema is cached, no step changes the cache or calls
\* get_openapi again, and what custom_openapi returns is the cached schema.
C6_CachedSchemaIsFinal ==
    [][Truthy(openapi_schema)
          => /\ openapi_schema' = openapi_schema
             /\ computed' = computed
             /\ base_schema' = base_schema
             /\ returned' = openapi_schema]_vars

\* Witness of C6: a second call was answered from the cache although the
\* routes no longer are those the cached schema was computed from.
C6_Witness ==
    /\ calls >= 2
    /\ computed = 1
    /\ returned = openapi_schema
    /\ GetOpenapi(routes) # base_schema

Get(d, k) == IF k \in DOMAIN d THEN d[k] ELSE EmptyDict

\* The augmented schema s keeps what the base schema b had, but for the
\* security schemes named in skip; it adds nothing but bearerAuth and the
\* containers that lead to it.
Preserves(b, s, skip) ==
    LET bc == Get(b, "components")
        sc == Get(s, "components")
        bs == Get(bc, "securitySchemes")
        ss == Get(sc, "securitySchemes")
    IN  /\ DOMAIN s = DOMAIN b \cup {"components"}
        /\ \A k \in DOMAIN b \ {"components"} : s[k] = b[k]
        /\ DOMAIN sc = DOMAIN bc \cup {"securitySchemes"}
        /\ \A k \in DOMAIN bc \ {"securitySchemes"} : sc[k] = bc[k]
        /\ DOMAIN ss = DOMAIN bs \cup {"bearerAuth"}
        /\ \A n \in DOMAIN bs \ skip : ss[n] = bs[n]

\* C7 as stated: the augmentation keeps every top-level key, every entry
\* of components and every entry of components.securitySchemes of the base
\* schema, with the same value.
C7_AugmentationPreservesAll ==
    computed > 0 => Preserves(base_schema, openapi_schema, {})

\* C7 as amended: the same, but for an entry bearerAuth the base schema
\* already had, which the augmentation replaces by its own bearer scheme.
C7_AugmentationPreservesAllButBearerAuth ==
    computed > 0
        => /\ Preserves(base_schema, openapi_schema, {"bearerAuth"})
           /\ openapi_schema["components"]["securitySchemes"]["bearerAuth"] = BearerAuth

\* Witness of C7: the base schema had models and security schemes, one of
\* them named bearerAuth, and the schema was augmented.
C7_Witness ==
    /\ computed > 0
    /\ "schemas" \in DOMAIN Get(base_schema, "components")
    /\ {"HTTPBearer", "bearerAuth"}
          \subseteq DOMAIN Get(Get(base_schema, "components"), "securitySchemes")
    /\ openapi_schema["components"]["securitySchemes"]["HTTPBearer"]
          = SchemeDef("HTTPBearer")

\* C8: whatever the routes, the schema custom_openapi returns has
\* components.securitySchemes.bearerAuth with type http, scheme bearer and
\* bearerFormat JWT.
C8_ReturnedSchemaHasBearerAuth ==
    calls > 0
        => LET ss == Get(Get(returned, "components"), "securitySchemes")
           IN  /\ "bearerAuth" \in DOMAIN ss
               /\ {"type", "scheme", "bearerFormat"} \subseteq DOMAIN ss["bearerAuth"]
               /\ ss["bearerAuth"]["type"] = "http"
               /\ ss["bearerAuth"]["scheme"] = "bearer"
               /\ ss["bearerAuth"]["bearerFormat"] = "JWT"

\* Witness of C8: the schema was computed with no route registered, from a
\* base schema without components, and has bearerAuth.
C8_Witness ==
    /\ computed > 0
    /\ base_schema["paths"] = {}
    /\ "components" \notin DOMAIN base_schema
    /\ "bearerAuth" \in DOMAIN returned["components"]["securitySchemes"]

\* C9: a request for a path no route matches ends with status 404 and a
\* body of detail, the requested path and a timestamp; it took the normal
\* path, was logged once and carries X-Request-ID.
C9_UnmatchedPathIs404 ==
    \A r \in Reqs :
        (Done(r) /\ request[r].path \notin {x.path : x \in RouteCatalog})
            => /\ outcome[r].kind = "response"
               /\ outcome[r].status = 404
               /\ DOMAIN outcome[r].body = {"detail", "path", "timestamp"}
               /\ outcome[r].body["path"] = request[r].path
               /\ outcome[r].body["timestamp"] \in Times
               /\ steps[r] = {"normal"}
               /\ Len(logged[r]) = 1
               /\ HasRequestIdHeader(outcome[r], request_id[r])

\* C10: when the downstream handler returned a response, 4xx included,
\* log_requests returns that response with nothing changed but the header
\* X-Request-ID, and logs the status the handler produced.
C10_NormalReturnUnchanged ==
    \A r \in Reqs :
        (Done(r) /\ downstream[r].kind = "response")
            => /\ outcome[r] = SetRequestIdHeader(downstream[r], request_id[r])
               /\ logged[r] = <<InfoLine(request[r], downstream[r], request_id[r])>>

\* The correlation IDs a finished request shows: in its log lines, in
\* its X-Request-ID header and in its error body.
ShownIds(r) ==
    {logged[r][i].request_id : i \in DOMAIN logged[r]}
    \cup (IF "X-Request-ID" \in DOMAIN outcome[r].headers
          THEN {outcome[r].headers["X-Request-ID"]} ELSE {})
    \cup (IF "request_id" \in DOMAIN outcome[r].body
          THEN {outcome[r].body["request_id"]} ELSE {})

\* No two requests that have entered share a correlation ID, and what a
\* finished request shows is its own ID.
OwnIds ==
    \A r \in Reqs :
        /\ pc[r] # "idle"
              => /\ request_id[r] # 0
                 /\ \A q \in Reqs \ {r} : pc[q] # "idle" => request_id[q] # request_id[r]
        /\ Done(r) => ShownIds(r) \subseteq {request_id[r]}

\* A step that is not a step of request r leaves everything of r as it is.
Isolated ==
    \A r \in Reqs :
        (pc'[r] = pc[r] /\ state'[r] = state[r])
            => /\ request'[r] = request[r]
               /\ request_id'[r] = request_id[r]
               /\ downstream'[r] = downstream[r]
               /\ outcome'[r] = outcome[r]
               /\ steps'[r] = steps[r]
               /\ logged'[r] = logged[r]
               /\ sinkFailed'[r] = sinkFailed[r]

\* C11: under every interleaving of the requests, no two of them share a
\* correlation ID, the header, log lines and error body of a request carry
\* its own ID, and a step of one request changes nothing of another.
C11_RequestsKeepTheirOwnId == []OwnIds /\ [][Isolated]_vars

\* Witness of C11: two requests were in flight together, the later one
\* finished first, and each shows an ID, the earlier one in a 500 body.
C11_Witness ==
    \E r, q \in Reqs :
        /\ request_id[r] < request_id[q]
        /\ Done(r) /\ Done(q)
        /\ Len(log) >= 2
        /\ log[1].request_id = request_id[q]
        /\ log[2].request_id = request_id[r]
        /\ "request_id" \in DOMAIN outcome[r].body
        /\ ShownIds(q) = {request_id[q]}

HasBearerAuth(s) ==
    LET ss == Get(Get(s, "components"), "securitySchemes")
    IN  /\ "bearerAuth" \in DOMAIN ss
        /\ ss["bearerAuth"] = BearerAuth

\* The callers that missed the cache and have called get_openapi.
Builders == {c \in Callers : cpc[c] \in {"built", "stored"} \/ (cpc[c] = "done" /\ Truthy(clocal[c]))}

\* Every caller that has returned got a schema with bearerAuth, and once
\* all have returned the cache holds an augmented schema.
RaceIsSafe ==
    /\ \A c \in Callers : cpc[c] = "done" => HasBearerAuth(cret[c])
    /\ Truthy(openapi_schema) => HasBearerAuth(openapi_schema)
    /\ (\A c \in Callers : cpc[c] = "done") => Truthy(openapi_schema)

\* All callers that have returned got the same content, and it is the
\* content the cache holds: no later writer has put another in its place.
RaceIsUniform ==
    /\ \A c, d \in Callers : (cpc[c] = "done" /\ cpc[d] = "done") => cret[c] = cret[d]
    /\ \A c \in Callers : cpc[c] = "done" => cret[c] = openapi_schema

ShutdownLogged ==
    \E i \in DOMAIN log : log[i] = AppLine("Shutting down application...")

\* C13: init_db is called at most once, and exactly once with success
\* before any request is served; the shutdown line is written only when
\* serving has ended, and is there when the lifespan has finished; when
\* init_db raised, no request is ever served.
C13_LifespanOrder ==
    /\ init_db_calls <= 1
    /\ (phase = "serving" \/ \E r \in Reqs : pc[r] # "idle")
          => /\ init_db_calls = 1
             /\ init_db_result = "ok"
             /\ \E i \in DOMAIN log : log[i] = AppLine("Database initialized")
    /\ ShutdownLogged
          => /\ phase = "finished"
             /\ \A r \in Reqs : pc[r] # "awaiting"
    /\ phase = "finished" => ShutdownLogged
    /\ init_db_result = "raised"
          => /\ phase = "failed"
             /\ \A r \in Reqs : pc[r] = "idle"

\* Witness of C13: the application started, served a request to its end
\* and shut down, the shutdown line being the last of the log.
C13_Witness ==
    /\ phase = "finished"
    /\ init_db_calls = 1
    /\ \E r \in Reqs : Done(r) /\ logged[r] # <<>>
    /\ log[Len(log)] = AppLine("Shutting down application...")

\* C14: from the moment the downstream handler is invoked, and for as
\* long as the handlers only read it, request.state.request_id holds the ID
\* generated at entry, which is the ID of every log line, header and error
\* body the request shows in the end.
C14_StateHoldsIdBeforeHandler ==
    \A r \in Reqs :
        /\ pc[r] \in {"awaiting", "done"}
              => /\ request_id[r] # 0
                 /\ state[r] = request_id[r]
        /\ Done(r) => ShownIds(r) \subseteq {state[r]}

\* Witness of C14: a handler is running with the ID in request.state while
\* another request has finished and shows the ID its state holds.
C14_Witness ==
    \E r, q \in Reqs :
        /\ pc[r] = "awaiting"
        /\ state[r] = request_id[r]
        /\ Done(q)
        /\ ShownIds(q) = {state[q]}

\* C15: the ID in the header, the log lines and the 500 body of a request
\* is the one generated at its entry, which never changes afterwards, also
\* when a handler has put another value in request.state.request_id.
C15_ShownIdIsGeneratedId ==
    /\ [](\A r \in Reqs :
            Done(r) => /\ ShownIds(r) \subseteq {request_id[r]}
                       /\ state[r] # request_id[r] => state[r] \notin ShownIds(r))
    /\ [][\A r \in Reqs : pc[r] # "idle" => request_id'[r] = request_id[r]]_vars

\* Witness of C15: a handler overwrote request.state.request_id, and the
\* request ended showing the generated ID.
C15_Witness ==
    \E r \in Reqs :
        /\ Done(r)
        /\ state[r] # request_id[r]
        /\ ShownIds(r) = {request_id[r]}
        /\ "X-Request-ID" \in DOMAIN outcome[r].headers

\* C16: once custom_openapi has been called, the route listing of the
\* cached schema and of what the calls return stays the one of the first
\* call: a route registered later is in neither.
C16_RouteListingIsFixed ==
    [][calls > 0
          => /\ openapi_schema'["paths"] = openapi_schema["paths"]
             /\ returned'["paths"] = openapi_schema["paths"]
             /\ \A x \in routes' \ routes :
                   x.path \notin returned'["paths"] \cup openapi_schema'["paths"]]_vars

\* Witness of C16: after the first call a route was registered, a later
\* call was made, and what it returned lacks that route.
C16_Witness ==
    /\ calls = MaxCalls
    /\ \E x \in routes : x.path \notin returned["paths"]
    /\ returned["paths"] = base_schema["paths"]

\* The failure path ran after the handler's response had its header set:
\* one ERROR line for the logger's exception, and a new 500 response in
\* which nothing of the handler's response is left.
InfoFailureBecomes500(r) ==
    /\ downstream[r].kind = "response"
    /\ steps[r] = {"normal", "failure"}
    /\ logged[r] = <<ErrorLine(request[r], LogFailure, request_id[r])>>
    /\ \E t \in Times : outcome[r] = ErrorResponse(request_id[r], t)
    /\ outcome[r].status # downstream[r].status
    /\ outcome[r].body # downstream[r].body

====
